---- MODULE Spec2Model ----
(***************************************************************************)
(* Model of the cats-vs-dogs pipeline: the dataset splitter                *)
(* (src/cats_dogs/data.py) and the prediction service                      *)
(* (src/cats_dogs/predict.py, app/main.py).                                *)
(*                                                                         *)
(* Strings are handled character by character (Head, Tail, SubSeq, \o on  *)
(* strings), so that str.lower(), Path.suffix, str.split and the ordering  *)
(* of as_posix() keys are computed, not assumed.  Paths are sequences of   *)
(* segments relative to the repository root; every path of a run shares    *)
(* the prefix of the repository root, so the order of the absolute         *)
(* as_posix() strings is the order of the relative ones.                   *)
(***************************************************************************)
EXTENDS Integers, Sequences, FiniteSets, TLC

\* ------------------------------------------------------------------------
\* Bounds
\* ------------------------------------------------------------------------
\* Greatest number of entries below the raw data directory.
MaxFiles == 4

\* ------------------------------------------------------------------------
\* Characters and strings
\* ------------------------------------------------------------------------
\* ord() of the characters that occur in the modelled names.
Ord ==
    ("\t" :> 9) @@ ("\n" :> 10) @@
    ("." :> 46) @@ ("/" :> 47) @@ ("1" :> 49) @@ ("2" :> 50) @@
    ("A" :> 65) @@ ("C" :> 67) @@ ("D" :> 68) @@ ("G" :> 71) @@ ("N" :> 78) @@
    ("P" :> 80) @@ ("S" :> 83) @@ ("T" :> 84) @@
    ("a" :> 97) @@ ("b" :> 98) @@ ("c" :> 99) @@ ("d" :> 100) @@
    ("e" :> 101) @@ ("g" :> 103) @@ ("i" :> 105) @@ ("j" :> 106) @@
    ("m" :> 109) @@ ("n" :> 110) @@ ("o" :> 111) @@ ("p" :> 112) @@
    ("r" :> 114) @@ ("s" :> 115) @@ ("t" :> 116) @@ ("w" :> 119) @@
    ("x" :> 120)

\* str.lower() on one character.
LowerChar(c) ==
    CASE c = "A" -> "a" [] c = "C" -> "c" [] c = "D" -> "d" [] c = "G" -> "g"
      [] c = "N" -> "n" [] c = "P" -> "p" [] c = "S" -> "s" [] c = "T" -> "t"
      [] OTHER -> c

\* str.lower()
RECURSIVE Lower(_)
Lower(s) == IF s = "" THEN "" ELSE LowerChar(Head(s)) \o Lower(Tail(s))

\* Python's < on str: code point by code point, a proper prefix is smaller.
RECURSIVE StrLess(_, _)
StrLess(s, t) ==
    IF t = "" THEN FALSE
    ELSE IF s = "" THEN TRUE
    ELSE IF Head(s) # Head(t) THEN Ord[Head(s)] < Ord[Head(t)]
    ELSE StrLess(Tail(s), Tail(t))

\* "/".join(parts)
RECURSIVE JoinSlash(_)
JoinSlash(parts) ==
    IF parts = <<>> THEN ""
    ELSE IF Len(parts) = 1 THEN parts[1]
    ELSE parts[1] \o "/" \o JoinSlash(Tail(parts))

\* PurePath.as_posix() of a path given by its segments.
AsPosix(parts) == JoinSlash(parts)

\* Position of the last "." of a name, 0 when there is none.
LastDot(name) ==
    LET dots == {i \in 1..Len(name) : SubSeq(name, i, i) = "."}
    IN  IF dots = {} THEN 0 ELSE CHOOSE i \in dots : \A j \in dots : j <= i

\* PurePath.suffix of a file name: from the last dot on, empty when the
\* only dot leads the name or ends it.
Suffix(name) ==
    LET d == LastDot(name)
    IN  IF d <= 1 \/ d = Len(name) THEN "" ELSE SubSeq(name, d, Len(name))

\* data.py:18
SUPPORTED_SUFFIXES ==
    { ".jpg", ".jpeg", ".png" }

\* data.py:19
CLASS_TO_INDEX == [cat |-> 0, dog |-> 1]

\* data.py:15
DEFAULT_SEED == 1337

Labels == {"cat", "dog"}
NoLabel == "None"

\* data.py:43-50
RECURSIVE InferFromReversed(_)
InferFromReversed(rev) ==
    IF rev = <<>> THEN NoLabel
    ELSE LET lower == Lower(Head(rev))
         IN  IF lower \in {"cat", "cats"} THEN "cat"
             ELSE IF lower \in {"dog", "dogs"} THEN "dog"
             ELSE InferFromReversed(Tail(rev))

Reversed(s) == [i \in 1..Len(s) |-> s[Len(s) + 1 - i]]

\* The scan without reversed(): the first matching segment wins.
InferFromFirstMatch(parts) == InferFromReversed(parts)

\* data.py:43-50
_infer_label_from_parts(parts) == InferFromReversed(Reversed(parts))

\* data.py:53-54
_is_image_name(name) == Lower(Suffix(name)) \in SUPPORTED_SUFFIXES

\* ------------------------------------------------------------------------
\* The file system seen by the splitter
\* ------------------------------------------------------------------------
\* Path(__file__).resolve().parents[2]: the repository root, and the raw
\* data directory "data/raw" below it (data.py:127-134, 233).
RepoRootParts == << "/", "repo" >>
RawDirParts == << "data", "raw" >>

\* Entries that may exist below the raw data directory; parts are relative
\* to it.  cats/a.jpg cats/b.jpg dogs/c.jpg dogs/d.jpg cats/Dog/e.PNG x.jpg
\* dogs/n.txt and the directory cats/CATS.
EntryUniverse ==
    { [parts |-> << "cats", "a.jpg" >>, isFile |-> TRUE],
      [parts |-> << "cats", "b.jpg" >>, isFile |-> TRUE],
      [parts |-> << "dogs", "c.jpg" >>, isFile |-> TRUE],
      [parts |-> << "dogs", "d.jpg" >>, isFile |-> TRUE],
      [parts |-> << "cats", "Dog", "e.PNG" >>, isFile |-> TRUE],
      [parts |-> << "x.jpg" >>, isFile |-> TRUE],
      [parts |-> << "dogs", "n.txt" >>, isFile |-> TRUE],
      [parts |-> << "cats", "CATS" >>, isFile |-> FALSE] }

\* Archives that a zip_path argument may name, by their namelist();
\* "missing.zip" does not exist.
ZipPaths == {"pets.zip", "unlabelled.zip", "missing.zip"}
NoZip == "None"

ZipNames(zip) ==
    CASE zip = "pets.zip" -> { "pets/", "pets/Cat/1.jpg", "pets/Dog/2.jpg" }
      [] zip = "unlabelled.zip" -> { "pets/x.jpg", "n.txt" }
      [] OTHER -> {}

ZipExists(zip) == zip \in {"pets.zip", "unlabelled.zip"}

IsPrefix(d, p) == Len(d) <= Len(p) /\ SubSeq(p, 1, Len(d)) = d

\* The directories below the raw data directory (the empty path is the
\* raw data directory itself): every ancestor of an entry, and every
\* entry that is a directory.
DirsOf(es) ==
    { <<>> } \cup
    { d \in UNION { { SubSeq(e.parts, 1, k) : k \in 0..Len(e.parts) } : e \in es } :
        \A e \in es : (e.parts = d) => ~e.isFile }

\* data.py:57-61
_has_class_dirs(es, candidate) ==
    IF candidate \notin DirsOf(es) THEN FALSE
    ELSE LET names == { Lower(d[Len(d)]) : d \in { c \in DirsOf(es) :
                          Len(c) = Len(candidate) + 1 /\ IsPrefix(candidate, c) } }
         IN  (names \cap {"cat", "cats"} # {}) /\ (names \cap {"dog", "dogs"} # {})

\* data.py:64-77.  The result is the set of roots the search may return:
\* empty stands for FileNotFoundError; below the raw directory the first
\* candidate in rglob order is taken, which may be any of them.
_find_dataset_root(exists, es) ==
    IF ~exists THEN {}
    ELSE IF _has_class_dirs(es, <<>>) THEN { <<>> }
    ELSE { c \in DirsOf(es) \ { <<>> } : _has_class_dirs(es, c) }

\* str.split("/")
RECURSIVE SplitAcc(_, _)
SplitAcc(name, cur) ==
    IF name = "" THEN << cur >>
    ELSE IF Head(name) = "/" THEN << cur >> \o SplitAcc(Tail(name), "")
    ELSE SplitAcc(Tail(name), cur \o Head(name))

SplitSlash(name) == SplitAcc(name, "")

\* The last segment of a path: Path.name.
PathName(parts) == parts[Len(parts)]

\* data.py:82-91: the loop over dataset_root.rglob("*"), `scan` being the
\* entries below the root in the order rglob returned them.  Directories
\* that exist only as ancestors of entries are skipped by is_file() like
\* the listed ones and are left out of the scan.  Labels are inferred
\* from the parts of the absolute path.
DirLabel(e) == _infer_label_from_parts(RepoRootParts \o RawDirParts \o e.parts)

DirKeep(e) == e.isFile /\ _is_image_name(PathName(e.parts)) /\ DirLabel(e) # NoLabel

\* A function given as a table of its values, so that it is computed once.
Table(f) == f @@ <<>>

\* What the loop decides for each entry: the label under which it is
\* appended, NoLabel when it is skipped.
DirAppendsTo ==
    Table([e \in EntryUniverse |-> IF DirKeep(e) THEN DirLabel(e) ELSE NoLabel])

DirPathsByLabel(scan) ==
    [label \in Labels |->
        LET kept == SelectSeq(scan, LAMBDA e : DirAppendsTo[e] = label)
        IN  [i \in 1..Len(kept) |-> RawDirParts \o kept[i].parts]]

\* data.py:106-118: the loop over archive.namelist().
EndsWithSlash(name) == name # "" /\ SubSeq(name, Len(name), Len(name)) = "/"

ZipLabel(name) == _infer_label_from_parts(SplitSlash(name))

ZipKeep(name) == ~EndsWithSlash(name) /\ _is_image_name(name) /\ ZipLabel(name) # NoLabel

AllZipNames == UNION { ZipNames(zip) : zip \in ZipPaths }

ZipAppendsTo ==
    Table([n \in AllZipNames |-> IF ZipKeep(n) THEN ZipLabel(n) ELSE NoLabel])

ZipParts == Table([n \in AllZipNames |-> SplitSlash(n)])

ZipPathsByLabel(namelist) ==
    [label \in Labels |->
        LET kept == SelectSeq(namelist, LAMBDA n : ZipAppendsTo[n] = label)
        IN  [i \in 1..Len(kept) |-> RawDirParts \o ZipParts[kept[i]]]]

\* data.py:104, 113-114, 123: the dataset root reported for an archive.
ZipDatasetRoot(names) ==
    LET root_candidates ==
            { SplitSlash(n)[1] : n \in { m \in names : ~EndsWithSlash(m) /\ _is_image_name(m) } }
    IN  IF Cardinality(root_candidates) = 1
        THEN RawDirParts \o << CHOOSE c \in root_candidates : TRUE >>
        ELSE RawDirParts

\* The check for an empty result left out.
AnyPathsUnchecked(pbl) == TRUE

\* data.py:93, 120: any(paths_by_label.values())
AnyPaths(pbl) == \E label \in Labels : pbl[label] # <<>>

\* Every path a scan can yield, its as_posix() key and the position of
\* that key among all keys in Python's string order, computed once.
SamplePaths ==
    { RawDirParts \o e.parts : e \in EntryUniverse } \cup
    { RawDirParts \o ZipParts[n] : n \in AllZipNames }

PosixKey == Table([p \in SamplePaths |-> AsPosix(p)])

KeyRank ==
    Table([p \in SamplePaths |->
             Cardinality({ q \in SamplePaths : StrLess(PosixKey[q], PosixKey[p]) })])

NameRank ==
    Table([n \in AllZipNames |-> Cardinality({ m \in AllZipNames : StrLess(m, n) })])

\* ------------------------------------------------------------------------
\* Ratios, shuffling and the stratified split
\* ------------------------------------------------------------------------
\* A ratio is a fraction <<numerator, denominator>>.  On the ratio dicts
\* below and on every class size up to twice the bound, the float
\* expressions of the source (sum(ratios.values()), total * ratio) give the
\* same results as the exact arithmetic used here.
\* data.py:17
DEFAULT_SPLIT_RATIOS == [train |-> <<4, 5>>, val |-> <<1, 10>>, test |-> <<1, 10>>]

NoRatios == [train |-> <<0, 1>>, val |-> <<0, 1>>, test |-> <<0, 1>>]

\* The ratios arguments tried: None (here NoRatios, falsy like None and
\* {}), the dict of the end-to-end scenario, a dict with a negative value
\* that sums to 1, and two dicts that do not sum to 1.
RatioArgs ==
    { NoRatios,
      [train |-> <<1, 2>>, val |-> <<1, 4>>, test |-> <<1, 4>>],
      [train |-> <<-1, 2>>, val |-> <<1, 2>>, test |-> <<1, 1>>],
      [train |-> <<1, 2>>, val |-> <<1, 4>>, test |-> <<1, 2>>],
      [train |-> <<1, 2>>, val |-> <<1, 4>>, test |-> <<1, 5>>] }

Seeds == {DEFAULT_SEED, 42}

Abs(x) == IF x < 0 THEN -x ELSE x

\* int(): truncation toward zero of num/den, den > 0.
Trunc(num, den) == IF num >= 0 THEN num \div den ELSE -((-num) \div den)

\* data.py:171
EffectiveRatios(arg) == IF arg = NoRatios THEN DEFAULT_SPLIT_RATIOS ELSE arg

\* The comparison without abs(): sum(ratios.values()) - 1.0 > 1e-6
RatioSumAboveOne(ratios) ==
    LET r == ratios
        den == r.train[2] * r.val[2] * r.test[2]
        num == r.train[1] * r.val[2] * r.test[2] + r.val[1] * r.train[2] * r.test[2]
               + r.test[1] * r.train[2] * r.val[2]
    IN  (num - den) * 1000000 > den

\* data.py:172: abs(sum(ratios.values()) - 1.0) > 1e-6
RatioSumBad(ratios) ==
    LET r == ratios
        den == r.train[2] * r.val[2] * r.test[2]
        num == r.train[1] * r.val[2] * r.test[2] + r.val[1] * r.train[2] * r.test[2]
               + r.test[1] * r.train[2] * r.val[2]
    IN  Abs(num - den) * 1000000 > den

\* random.Random(f"{seed}:{label}").shuffle(paths) for a list of n
\* elements: position i of the result holds element ShufflePerm[i] of the
\* list (CPython's Mersenne Twister, string seeding version 2).
ShufflePerm(seed, label, n) ==
    LET table ==
          CASE seed = 1337 /\ label = "cat" ->
                 << <<>>, <<1>>, <<1, 2>>, <<1, 2, 3>>, <<4, 2, 1, 3>>, <<4, 5, 2, 1, 3>> >>
            [] seed = 1337 /\ label = "dog" ->
                 << <<>>, <<1>>, <<1, 2>>, <<1, 2, 3>>, <<1, 4, 2, 3>>, <<1, 4, 2, 3, 5>> >>
            [] seed = 42 /\ label = "cat" ->
                 << <<>>, <<1>>, <<2, 1>>, <<2, 3, 1>>, <<4, 1, 3, 2>>, <<5, 4, 3, 1, 2>> >>
            [] seed = 42 /\ label = "dog" ->
                 << <<>>, <<1>>, <<2, 1>>, <<3, 2, 1>>, <<3, 1, 4, 2>>, <<5, 1, 4, 3, 2>> >>
    IN  table[n + 1]

Shuffle(seed, label, paths) ==
    LET perm == ShufflePerm(seed, label, Len(paths))
    IN  [i \in 1..Len(paths) |-> paths[perm[i]]]

\* The paths of a class shuffled as the scan returned them.
SortPathsAsScanned(paths) == paths

\* data.py:145, sorted(paths, key=lambda p: p.as_posix()): distinct paths
\* have distinct keys, so the order of the keys is the order of their ranks.
SortPaths(paths) == SortSeq(paths, LAMBDA a, b : KeyRank[a] < KeyRank[b])

\* The items of a split left as the class slices were appended.
SortItemsAsAppended(items) == items

\* data.py:158-159: sorted(items, key=lambda item: item[0].as_posix())
SortItems(items) == SortSeq(items, LAMBDA a, b : KeyRank[a.path] < KeyRank[b.path])

\* Python's list slice s[lo:hi] for integers lo and hi of any sign.
PyBound(i, n) == IF i < 0 THEN (IF i + n < 0 THEN 0 ELSE i + n) ELSE (IF i > n THEN n ELSE i)

PySlice(s, lo, hi) == SubSeq(s, PyBound(lo, Len(s)) + 1, PyBound(hi, Len(s)))

\* data.py:149-151
TrainCount(total, ratios) == Trunc(total * ratios.train[1], ratios.train[2])

ValCount(total, ratios) == Trunc(total * ratios.val[1], ratios.val[2])

\* data.py:145-156: the three slices of one class.
ClassSlices(paths_of_label, label, seed, ratios) ==
    LET paths == Shuffle(seed, label, SortPaths(paths_of_label))
        total == Len(paths)
        train_count == TrainCount(total, ratios)
        val_count == ValCount(total, ratios)
        Tag(ps) == [i \in 1..Len(ps) |-> [path |-> ps[i], label |-> label]]
    IN  [train |-> Tag(PySlice(paths, 0, train_count)),
         val |-> Tag(PySlice(paths, train_count, train_count + val_count)),
         test |-> Tag(PySlice(paths, train_count + val_count, total))]

\* data.py:137-161
_stratified_split(paths_by_label, seed, ratios) ==
    LET cat == ClassSlices(paths_by_label["cat"], "cat", seed, ratios)
        dog == ClassSlices(paths_by_label["dog"], "dog", seed, ratios)
    IN  [train |-> SortItems(cat.train \o dog.train),
         val |-> SortItems(cat.val \o dog.val),
         test |-> SortItems(cat.test \o dog.test)]

\* ------------------------------------------------------------------------
\* write_split_manifests
\* ------------------------------------------------------------------------
\* data.py:205-206: f"{rel_path}\t{label}"
ManifestLine(item) == PosixKey[item.path] \o "\t" \o item.label

\* "\n".join(lines)
RECURSIVE JoinNewline(_)
JoinNewline(lines) ==
    IF lines = <<>> THEN ""
    ELSE IF Len(lines) = 1 THEN lines[1]
    ELSE lines[1] \o "\n" \o JoinNewline(Tail(lines))

\* data.py:202-208: the text written to one manifest.
ManifestText(items) ==
    LET lines == [i \in 1..Len(items) |-> ManifestLine(items[i])]
    IN  JoinNewline(lines) \o (IF lines # <<>> THEN "\n" ELSE "")

\* data.py:203-207
ClassCounts(items) ==
    [label \in Labels |-> Cardinality({ i \in 1..Len(items) : items[i].label = label })]

\* data.py:185: the data source recorded for a directory scan.
FilesystemSource(dataset_root) == [type |-> "filesystem", path |-> AsPosix(dataset_root)]

\* The archive fallback recorded under the type of a directory scan.
ZipSourceAsFilesystem(zip) == [type |-> "filesystem", path |-> zip]

\* data.py:191: the data source recorded for the archive fallback.
ZipSource(zip) == [type |-> "zip", path |-> zip]

\* data.py:212-224
Metadata(seed, ratios, splits, source, dataset_root) ==
    [seed |-> seed,
     ratios |-> ratios,
     counts |-> [n \in {"train", "val", "test"} |-> Len(splits[n])],
     counts_by_class |-> [n \in {"train", "val", "test"} |-> ClassCounts(splits[n])],
     class_to_index |-> CLASS_TO_INDEX,
     data_source |-> source,
     dataset_root |-> dataset_root]

NoPaths == [label \in Labels |-> <<>>]
NoSplits == [train |-> <<>>, val |-> <<>>, test |-> <<>>]

\* The orders in which one scan of a set may come back: ascending by
\* name, descending, and every rotation of the ascending order.
Keyed(S, rank) ==
    [i \in 1..Cardinality(S) |->
        CHOOSE x \in S : Cardinality({ y \in S : rank[y] < rank[x] }) = i - 1]

Rotations(q) ==
    { [i \in 1..Len(q) |-> q[((i + k - 1) % Len(q)) + 1]] : k \in 0..(Len(q) - 1) }

ScanOrders(S, rank) ==
    IF S = {} THEN { <<>> }
    ELSE LET asc == Keyed(S, rank) IN Rotations(asc) \cup { Reversed(asc) }

\* The position of an entry's path among all paths.
EntryRank == Table([e \in EntryUniverse |-> KeyRank[RawDirParts \o e.parts]])

\* data.py:80-96: the outcomes of _collect_from_directory, one for every
\* root the search may return and every order of the scan below it.
_collect_from_directory(exists, es) ==
    LET roots == _find_dataset_root(exists, es)
        Below(root) == { e \in es : IsPrefix(root, e.parts) /\ Len(root) < Len(e.parts) }
        Failed(found) == [ok |-> FALSE, rootFound |-> found, paths |-> NoPaths, root |-> <<>>]
        Outcome(scan, root) ==
            LET paths_by_label == DirPathsByLabel(scan)
            IN  IF AnyPaths(paths_by_label)
                THEN [ok |-> TRUE, rootFound |-> TRUE, paths |-> paths_by_label,
                      root |-> RawDirParts \o root]
                ELSE Failed(TRUE)
    IN  IF roots = {} THEN { Failed(FALSE) }
        ELSE UNION { { Outcome(scan, root) :
                         scan \in ScanOrders(Below(root), EntryRank) }
                     : root \in roots }

\* data.py:99-124: the outcomes of _collect_from_zip, one for every order
\* of namelist().
_collect_from_zip(zip) ==
    LET Failed == [ok |-> FALSE, rootFound |-> FALSE, paths |-> NoPaths, root |-> <<>>]
        Outcome(namelist) ==
            LET paths_by_label == ZipPathsByLabel(namelist)
            IN  IF AnyPaths(paths_by_label)
                THEN [ok |-> TRUE, rootFound |-> TRUE, paths |-> paths_by_label,
                      root |-> ZipDatasetRoot(ZipNames(zip))]
                ELSE Failed
    IN  IF ~ZipExists(zip) THEN { Failed }
        ELSE { Outcome(namelist) : namelist \in ScanOrders(ZipNames(zip), NameRank) }

\* ------------------------------------------------------------------------
\* Training (train.py)
\* ------------------------------------------------------------------------
\* An item of a manifest is its label and what happens to its file:
\* whether it decodes (train.py:72-75) and which augmented variant, counted
\* from 1, fails (train.py:82-84), 0 for none.
MaxItems == 2

Items ==
    { [label |-> "cat", decodes |-> TRUE, aug_fails |-> 0],
      [label |-> "dog", decodes |-> TRUE, aug_fails |-> 0],
      [label |-> "cat", decodes |-> FALSE, aug_fails |-> 0],
      [label |-> "bird", decodes |-> TRUE, aug_fails |-> 0],
      [label |-> "cat", decodes |-> TRUE, aug_fails |-> 1],
      [label |-> "dog", decodes |-> TRUE, aug_fails |-> 2] }

ItemLists == UNION { [1..n -> Items] : n \in 0..MaxItems }

DEFAULT_AUGMENTATIONS_PER_IMAGE == 1

AugmentationCounts == {0, DEFAULT_AUGMENTATIONS_PER_IMAGE, 2}

\* train.py:80
AugSeed(seed, idx, aug_idx) == seed + idx * 1000 + aug_idx

\* Every variant labelled with the first class.
VariantLabelFirstClass(label) == 0

\* train.py:85: the label appended for an augmented row.
VariantLabel(label) == CLASS_TO_INDEX[label]

\* train.py:71-87: one pass of the loop body for the item at position idx
\* (from 0).  A feature row names the item and the variant it was computed
\* from, 0 for the image itself, with the seed of its random stream.
BuildStep(acc, idx, item, augment, augmentations_per_image, seed) ==
    IF ~item.decodes
    THEN [acc EXCEPT !.skipped = @ + 1]
    ELSE LET base == [item |-> idx, variant |-> 0, rng |-> <<>>]
             with_base == Append(acc.features, base)
         IN  IF item.label \notin DOMAIN CLASS_TO_INDEX
             THEN [acc EXCEPT !.features = with_base, !.skipped = @ + 1]
             ELSE LET class_index == CLASS_TO_INDEX[item.label]
                      planned == IF augment /\ augmentations_per_image > 0
                                 THEN augmentations_per_image ELSE 0
                      failed == item.aug_fails \in 1..planned
                      done == IF failed THEN item.aug_fails - 1 ELSE planned
                      rows == [k \in 1..done |->
                                 [item |-> idx, variant |-> k,
                                  rng |-> << AugSeed(seed, idx, k - 1) >>]]
                  IN  [features |-> with_base \o rows,
                       labels |-> Append(acc.labels, class_index)
                                    \o [k \in 1..done |-> VariantLabel(item.label)],
                       skipped |-> acc.skipped + (IF failed THEN 1 ELSE 0)]

RECURSIVE BuildLoop(_, _, _, _, _, _)
BuildLoop(acc, idx, items, augment, augmentations_per_image, seed) ==
    IF idx = Len(items) THEN acc
    ELSE BuildLoop(BuildStep(acc, idx, items[idx + 1], augment, augmentations_per_image, seed),
                   idx + 1, items, augment, augmentations_per_image, seed)

\* train.py:59-92: `raised` when the call ends with ValueError, else the
\* feature rows X, the labels y and the skip counter.
_build_features(items, augment, augmentations_per_image, seed) ==
    LET out == BuildLoop([features |-> <<>>, labels |-> <<>>, skipped |-> 0], 0, items,
                         augment, augmentations_per_image, seed)
    IN  IF out.features = <<>>
        THEN [raised |-> TRUE, X |-> <<>>, y |-> <<>>, skipped |-> out.skipped]
        ELSE [raised |-> FALSE, X |-> out.features, y |-> out.labels, skipped |-> out.skipped]

\* The inverse with the indices counted from one.
DictInvertFromOne(d) ==
    [i \in { d[k] + 1 : k \in DOMAIN d } |-> CHOOSE k \in DOMAIN d : d[k] + 1 = i]

\* train.py:336: {v: k for k, v in d.items()}, for a dict with distinct
\* values.
DictInvert(d) == [i \in { d[k] : k \in DOMAIN d } |-> CHOOSE k \in DOMAIN d : d[k] = i]

\* ------------------------------------------------------------------------
\* Prediction (predict.py)
\* ------------------------------------------------------------------------
\* A probability is a number of tenths.  A classifier either has
\* predict_proba and answers every feature vector with the row `proba`,
\* like the DummyClassifier of tests/test_predict.py, or has only predict
\* and answers with the class `pred`; classes_ is <<>> when the attribute
\* is missing and << ids >> when it is present.  Classifiers that have
\* decision_function and no predict_proba are not modelled.
Str(i) == CASE i = 0 -> "0" [] i = 1 -> "1" [] i = 2 -> "2" [] i = 3 -> "3" [] OTHER -> "?"

\* The inverse of CLASS_TO_INDEX, as train.py builds it.
INDEX_TO_CLASS == DictInvert(CLASS_TO_INDEX)

\* The rows a predict_proba answers with.  predict.py:77 rounds them to
\* float32, which keeps the order of tenths and keeps distinct tenths
\* distinct, so a row is compared as its tenths are.
ProbaRows == { <<2, 8>>, <<8, 2>>, <<5, 5>>, <<1, 3, 6>>, <<4, 4, 2>> }

ClassesChoices == { <<>>, << <<0, 1>> >>, << <<1, 0>> >>, << <<0, 1, 2>> >>, << <<0>> >> }

Classifiers ==
    { [has_predict_proba |-> TRUE, proba |-> row, pred |-> 0, classes_ |-> cls] :
        row \in ProbaRows, cls \in ClassesChoices } \cup
    { [has_predict_proba |-> FALSE, proba |-> <<>>, pred |-> p, classes_ |-> cls] :
        p \in {0, 1}, cls \in { <<>>, << <<0, 1>> >>, << <<0>> >> } }

\* model.py:25-38, the fields the predictor and the service read.
Bundles ==
    { [classifier |-> c, class_to_index |-> CLASS_TO_INDEX, index_to_class |-> INDEX_TO_CLASS,
       created_at |-> "2024-01-01T00:00:00Z", mlflow_run_id |-> "run", versions |-> "versions",
       build_info |-> "unknown", schema_version |-> 1] : c \in Classifiers }

\* Position of value v in sequence q (list.index), 0 when it is absent.
IndexOf(q, v) ==
    IF \E i \in 1..Len(q) : q[i] = v
    THEN CHOOSE i \in 1..Len(q) : q[i] = v /\ \A j \in 1..(i - 1) : q[j] # v
    ELSE 0

\* predict.py:63-77.  The result is <<>> when the call raises (list.index
\* on a prediction that is not among classes_) and << row >> otherwise.
_predict_proba(classifier) ==
    IF classifier.has_predict_proba
    THEN << classifier.proba >>
    ELSE LET classes == IF classifier.classes_ # <<>> THEN classifier.classes_[1]
                        ELSE << classifier.pred >>
             class_index == IndexOf(classes, classifier.pred)
         IN  IF class_index = 0 THEN <<>>
             ELSE << [i \in 1..Len(classes) |-> IF i = class_index THEN 10 ELSE 0] >>

\* The indices counted from one.
FallbackLabelsFromOne(n_classes) == [i \in 1..n_classes |-> Str(i)]

\* predict.py:92: [str(idx) for idx in range(n_classes)]
FallbackLabels(n_classes) == [i \in 1..n_classes |-> Str(i - 1)]

\* predict.py:80-93
_resolve_class_labels(bundle, classifier, n_classes) ==
    LET class_indices == IF classifier.classes_ # <<>> THEN classifier.classes_[1]
                         ELSE [i \in 1..n_classes |-> i - 1]
        labels == [i \in 1..Len(class_indices) |->
                     IF class_indices[i] \in DOMAIN bundle.index_to_class
                     THEN bundle.index_to_class[class_indices[i]]
                     ELSE Str(class_indices[i])]
    IN  IF Len(labels) # n_classes THEN FallbackLabels(n_classes) ELSE labels

\* The last position of the greatest value.
ArgMaxLast(scores) ==
    CHOOSE i \in 1..Len(scores) :
        /\ \A j \in 1..Len(scores) : scores[j] <= scores[i]
        /\ \A j \in (i + 1)..Len(scores) : scores[j] < scores[i]

\* predict.py:104, np.argmax: the first position (from 1) of the greatest
\* value.
ArgMax(scores) ==
    CHOOSE i \in 1..Len(scores) :
        /\ \A j \in 1..Len(scores) : scores[j] <= scores[i]
        /\ \A j \in 1..(i - 1) : scores[j] < scores[i]

\* predict.py:96-111, from the classifier's answer on.
PredictionResult(bundle, scores) ==
    LET labels == _resolve_class_labels(bundle, bundle.classifier, Len(scores))
        best_idx == ArgMax(scores)
    IN  [label |-> labels[best_idx], probability |-> scores[best_idx]]

\* Request bodies: no bytes, bytes that are no image, an image file cut
\* short (Image.open succeeds, loading the pixels fails) and a good image.
Payloads == { "", "garbage", "truncated", "png" }

ContentTypes == { "", "image/png", "text/plain" }

StartsWith(s, prefix) == Len(s) >= Len(prefix) /\ SubSeq(s, 1, Len(prefix)) = prefix

\* The test `payload is None`, which no byte string passes.
EmptyPayloadIsNone(payload) == FALSE

\* predict.py:115: `not payload`
EmptyPayload(payload) == payload = ""

\* predict.py:114-119 with predict_image: the steps taken in order and how
\* the call ends, `raised` naming the exception or "" for a result.
predict_bytes(bundle, payload) ==
    LET NoResult == [label |-> "", probability |-> 0]
        proba == _predict_proba(bundle.classifier)
    IN  IF EmptyPayload(payload)
        THEN [steps |-> <<>>, raised |-> "ValueError", result |-> NoResult]
        ELSE IF payload \in {"", "garbage"}
        THEN [steps |-> <<"Image.open">>, raised |-> "UnidentifiedImageError",
              result |-> NoResult]
        ELSE IF payload = "truncated"
        THEN [steps |-> <<"Image.open", "preprocess">>, raised |-> "OSError",
              result |-> NoResult]
        ELSE IF proba = <<>>
        THEN [steps |-> <<"Image.open", "preprocess", "featurize", "classifier">>,
              raised |-> "ValueError", result |-> NoResult]
        ELSE [steps |-> <<"Image.open", "preprocess", "featurize", "classifier">>,
              raised |-> "", result |-> PredictionResult(bundle, proba[1])]

\* What MODEL_PATH may hold: nothing, a pickle of something else, a bundle.
ModelFiles ==
    { [kind |-> "missing", bundle |-> <<>>], [kind |-> "other", bundle |-> <<>>] } \cup
    { [kind |-> "bundle", bundle |-> << b >>] : b \in Bundles }

\* predict.py:29-37: <<>> with the error message, or << bundle >>.
load_model_bundle(file) ==
    IF file.kind = "missing" THEN [bundle |-> <<>>, error |-> "Model not found"]
    ELSE IF file.kind # "bundle"
    THEN [bundle |-> <<>>, error |-> "Loaded object is not a ModelBundle"]
    ELSE [bundle |-> file.bundle, error |-> "None"]

\* ------------------------------------------------------------------------
\* Features (model.py, data.py:22-34, predict.py:40-47)
\* ------------------------------------------------------------------------
\* An image is the sequence of its pixels after the resize, a pixel the
\* three 8-bit values of its channels.  An array holds one value per pixel
\* and channel, the fraction << num, den >>; the float32 values of the
\* levels used here are the fractions rounded, v / 255 * 255 giving v back.
MaxPixels == 2

Levels == {0, 100, 255}

Pixels == { p \in Levels \X Levels \X Levels :
              p \in { <<0, 0, 0>>, <<255, 255, 255>>, <<0, 100, 255>>, <<100, 100, 0>> } }

Images == UNION { [1..n -> Pixels] : n \in 1..MaxPixels }

DEFAULT_FEATURE_BINS == 8

Bins == {1, 2, DEFAULT_FEATURE_BINS}

\* model.py:18-22, the fields _preprocess_for_inference reads.
PreprocessConfigs == [normalize : BOOLEAN, dtype : {"float32", "uint8"}]

\* data.py:33: np.asarray(image, dtype=np.float32) / 255.0
preprocess_image(pixels) ==
    [i \in 1..Len(pixels) |-> [c \in 1..3 |-> << pixels[i][c], 255 >>]]

\* predict.py:40-47
_preprocess_for_inference(pixels, config) ==
    LET array == preprocess_image(pixels)
        scaled == IF ~config.normalize
                  THEN [i \in 1..Len(array) |->
                          [c \in 1..3 |-> << array[i][c][1] * 255, array[i][c][2] >>]]
                  ELSE array
    IN  IF config.dtype # "float32"
        THEN [i \in 1..Len(scaled) |->
                [c \in 1..3 |-> << Trunc(scaled[i][c][1], scaled[i][c][2]), 1 >>]]
        ELSE scaled

\* np.histogram with range=(0.0, 1.0): values outside the range are not
\* counted, the last bin holds its right edge.
InHistogramRange(x) == 0 <= x[1] /\ x[1] <= x[2]

BinIndex(x, bins) == IF x[1] = x[2] THEN bins ELSE (x[1] * bins) \div x[2] + 1

\* model.py:48-53: the sub-histogram of one channel.
ChannelHistogram(array, channel, bins) ==
    LET hist == [b \in 1..bins |->
                   Cardinality({ i \in 1..Len(array) :
                                   /\ InHistogramRange(array[i][channel])
                                   /\ BinIndex(array[i][channel], bins) = b })]
        total == Cardinality({ i \in 1..Len(array) : InHistogramRange(array[i][channel]) })
    IN  [b \in 1..bins |-> IF total > 0 THEN << hist[b], total >> ELSE << 0, 1 >>]

\* model.py:41-55
extract_color_histogram(image_array, bins) ==
    ChannelHistogram(image_array, 1, bins) \o ChannelHistogram(image_array, 2, bins)
      \o ChannelHistogram(image_array, 3, bins)

\* model.py:58-60
featurize_image(image_array, bins) == extract_color_histogram(image_array, bins)

\* ------------------------------------------------------------------------
\* State
\* ------------------------------------------------------------------------
VARIABLES
    rawExists,         \* the raw data directory exists
    entries,           \* the entries below the raw data directory
    splitsDir,         \* the splits directory: each file is <<>> (absent) or <<content>>
    call,              \* the last call of write_split_manifests and what it did
    modelFile,         \* what MODEL_PATH holds
    started,           \* the startup event of the service has run
    MODEL_BUNDLE,      \* main.py:31, <<>> for None
    MODEL_LOAD_ERROR,  \* main.py:32, "None" for None
    response,          \* the last request of the service and its answer
    image,             \* the pixels handed to the feature extraction
    config,            \* its preprocess config and bin count
    features,          \* <<>> or << the feature vector computed >>
    build,             \* one call of _build_features and its result
    cfg,               \* the arguments and manifests of a training run
    data,              \* <<>> or << the feature matrices of the run >>
    fit                \* the position of the run in its training loop

splitVars == <<rawExists, entries, splitsDir, call>>

serveVars == <<modelFile, started, MODEL_BUNDLE, MODEL_LOAD_ERROR, response>>

featureVars == <<image, config, features>>

trainVars == <<build, cfg, data, fit>>

vars == <<rawExists, entries, splitsDir, call,
          modelFile, started, MODEL_BUNDLE, MODEL_LOAD_ERROR, response,
          image, config, features, build, cfg, data, fit>>

NoCall ==
    [outcome |-> "none", seed |-> DEFAULT_SEED, ratiosArg |-> NoRatios, zip |-> NoZip,
     dirTried |-> FALSE, dirOk |-> FALSE, rootFound |-> FALSE,
     zipTried |-> FALSE, zipScanned |-> FALSE,
     discovered |-> NoPaths, splits |-> NoSplits, returned |-> <<>>]

EmptySplitsDir ==
    [exists |-> FALSE, train |-> <<>>, val |-> <<>>, test |-> <<>>, metadata |-> <<>>]

SplitInit ==
    /\ rawExists = FALSE
    /\ entries = {}
    /\ splitsDir = EmptySplitsDir
    /\ call = NoCall

\* The raw data is put in place before the splitter is first run and is
\* left alone afterwards.
CreateRawDir ==
    /\ call.outcome = "none"
    /\ ~rawExists
    /\ rawExists' = TRUE
    /\ UNCHANGED <<entries, splitsDir, call>>
    /\ UNCHANGED <<serveVars, featureVars, trainVars>>

AddEntry ==
    /\ call.outcome = "none"
    /\ rawExists
    /\ Cardinality(entries) < MaxFiles
    /\ \E e \in EntryUniverse \ entries :
          entries' = entries \cup {e}
    /\ UNCHANGED <<rawExists, splitsDir, call>>
    /\ UNCHANGED <<serveVars, featureVars, trainVars>>

\* data.py:193-228: the call from _stratified_split on, for the samples
\* `got` collected from `source`.
Finish(base, got, source) ==
    LET seed == base.seed
        ratios == EffectiveRatios(base.ratiosArg)
        splits == _stratified_split(got.paths, seed, ratios)
        metadata == Metadata(seed, ratios, splits, source, got.root)
    IN  /\ splitsDir' = [exists |-> TRUE,
                         train |-> << ManifestText(splits.train) >>,
                         val |-> << ManifestText(splits.val) >>,
                         test |-> << ManifestText(splits.test) >>,
                         metadata |-> << metadata >>]
        /\ call' = [base EXCEPT !.outcome = "ok", !.discovered = got.paths,
                                !.splits = splits, !.returned = << metadata >>]

Raise(base, error) ==
    /\ call' = [base EXCEPT !.outcome = error]
    /\ UNCHANGED splitsDir

\* data.py:164-228
write_split_manifests ==
    \E seed \in Seeds, ratiosArg \in RatioArgs, zip \in ZipPaths \cup {NoZip} :
       LET ratios == EffectiveRatios(ratiosArg)
           base == [NoCall EXCEPT !.seed = seed, !.ratiosArg = ratiosArg, !.zip = zip]
       IN  /\ UNCHANGED <<rawExists, entries>>
           /\ UNCHANGED <<serveVars, featureVars, trainVars>>
           /\ IF RatioSumBad(ratios)
              THEN Raise(base, "ValueError")
              ELSE \E d \in _collect_from_directory(rawExists, entries) :
                     LET tried == [base EXCEPT !.dirTried = TRUE, !.dirOk = d.ok,
                                               !.rootFound = d.rootFound]
                     IN  IF d.ok
                         THEN Finish(tried, d, FilesystemSource(d.root))
                         ELSE IF zip = NoZip
                         THEN Raise(tried, "FileNotFoundError")
                         ELSE \E z \in _collect_from_zip(zip) :
                                LET fell == [tried EXCEPT !.zipTried = TRUE,
                                                          !.zipScanned = ZipExists(zip)]
                                IN  IF z.ok
                                    THEN Finish(fell, z, ZipSource(zip))
                                    ELSE Raise(fell, "FileNotFoundError")

\* ------------------------------------------------------------------------
\* The service (app/main.py)
\* ------------------------------------------------------------------------
NoResponse ==
    [endpoint |-> "none", status |-> 0, content_type |-> "", payload |-> "",
     steps |-> <<>>, raised |-> "", label |-> "", probability |-> 0, detail |-> "",
     metadata |-> <<>>]

ServeIdle ==
    /\ modelFile = [kind |-> "missing", bundle |-> <<>>]
    /\ started = FALSE
    /\ MODEL_BUNDLE = <<>>
    /\ MODEL_LOAD_ERROR = "None"
    /\ response = NoResponse

\* main.py:49-57, run by the framework once before any request is served.
load_model ==
    /\ ~started
    /\ started' = TRUE
    /\ LET loaded == load_model_bundle(modelFile)
       IN  /\ MODEL_BUNDLE' = loaded.bundle
           /\ MODEL_LOAD_ERROR' = loaded.error
    /\ UNCHANGED <<modelFile, response>>
    /\ UNCHANGED <<splitVars, featureVars, trainVars>>

\* main.py:66-87
health ==
    /\ started
    /\ response' =
         IF MODEL_BUNDLE = <<>>
         THEN [NoResponse EXCEPT !.endpoint = "health", !.status = 503,
                 !.detail = IF MODEL_LOAD_ERROR # "None" THEN MODEL_LOAD_ERROR
                            ELSE "Model not loaded."]
         ELSE [NoResponse EXCEPT !.endpoint = "health", !.status = 200,
                 !.metadata = << [model_created_at |-> MODEL_BUNDLE[1].created_at,
                                  mlflow_run_id |-> MODEL_BUNDLE[1].mlflow_run_id,
                                  schema_version |-> MODEL_BUNDLE[1].schema_version,
                                  versions |-> MODEL_BUNDLE[1].versions,
                                  build_info |-> MODEL_BUNDLE[1].build_info,
                                  class_mapping |-> MODEL_BUNDLE[1].class_to_index] >>]
    /\ UNCHANGED <<modelFile, started, MODEL_BUNDLE, MODEL_LOAD_ERROR>>
    /\ UNCHANGED <<splitVars, featureVars, trainVars>>

\* The content type looked at before the model.
PredictGuardTypeFirst(loaded, content_type) ==
    IF content_type # "" /\ ~StartsWith(content_type, "image/") THEN "not_image"
    ELSE IF ~loaded THEN "unloaded"
    ELSE "pass"

\* main.py:92-94: what stops a request before its bytes are read.
PredictGuard(loaded, content_type) ==
    IF ~loaded THEN "unloaded"
    ELSE IF content_type # "" /\ ~StartsWith(content_type, "image/") THEN "not_image"
    ELSE "pass"

\* main.py:90-100 with _require_model (main.py:60-63)
predict ==
    /\ started
    /\ \E content_type \in ContentTypes, payload \in Payloads :
         LET req == [NoResponse EXCEPT !.endpoint = "predict",
                        !.content_type = content_type, !.payload = payload]
             guard == PredictGuard(MODEL_BUNDLE # <<>>, content_type)
         IN  response' =
               IF guard = "unloaded"
               THEN [req EXCEPT !.status = 503, !.steps = <<"_require_model">>,
                       !.detail = IF MODEL_LOAD_ERROR # "None" THEN MODEL_LOAD_ERROR
                                  ELSE "Model not loaded."]
               ELSE IF guard = "not_image"
               THEN [req EXCEPT !.status = 400,
                       !.steps = <<"_require_model", "content_type">>,
                       !.detail = "File must be an image."]
               ELSE LET done == predict_bytes(MODEL_BUNDLE[1], payload)
                        steps == <<"_require_model", "content_type", "read", "predict_bytes">>
                                 \o done.steps
                    IN  IF done.raised # ""
                        THEN [req EXCEPT !.status = 400, !.steps = steps,
                                !.raised = done.raised,
                                !.detail = "Invalid image payload"]
                        ELSE [req EXCEPT !.status = 200, !.steps = steps,
                                !.label = done.result.label,
                                !.probability = done.result.probability]
    /\ UNCHANGED <<modelFile, started, MODEL_BUNDLE, MODEL_LOAD_ERROR>>
    /\ UNCHANGED <<splitVars, featureVars, trainVars>>

\* main.py:103-106
metrics ==
    /\ started
    /\ response' = [NoResponse EXCEPT !.endpoint = "metrics", !.status = 200]
    /\ UNCHANGED <<modelFile, started, MODEL_BUNDLE, MODEL_LOAD_ERROR>>
    /\ UNCHANGED <<splitVars, featureVars, trainVars>>

\* ------------------------------------------------------------------------
\* Feature extraction and training as steps
\* ------------------------------------------------------------------------
FeatureIdle ==
    /\ image = <<>>
    /\ config = [preprocess |-> [normalize |-> TRUE, dtype |-> "float32"],
                 bins |-> DEFAULT_FEATURE_BINS]
    /\ features = <<>>

\* train.py:74-75: the features of a training sample.
featurize_for_training ==
    /\ features = <<>>
    /\ features' = << [by |-> "train", array |-> preprocess_image(image),
                       vector |-> featurize_image(preprocess_image(image), config.bins)] >>
    /\ UNCHANGED <<image, config>>
    /\ UNCHANGED <<splitVars, serveVars, trainVars>>

\* predict.py:98-99: the features predict_image hands to the classifier.
featurize_for_inference ==
    /\ features = <<>>
    /\ LET array == _preprocess_for_inference(image, config.preprocess)
       IN  features' = << [by |-> "predict", array |-> array,
                           vector |-> featurize_image(array, config.bins)] >>
    /\ UNCHANGED <<image, config>>
    /\ UNCHANGED <<splitVars, serveVars, trainVars>>

NoBuild ==
    [called |-> FALSE, items |-> <<>>, augment |-> FALSE, augmentations_per_image |-> 0,
     seed |-> DEFAULT_SEED, raised |-> FALSE, X |-> <<>>, y |-> <<>>, skipped |-> 0]

NoCfg ==
    [train_items |-> <<>>, val_items |-> <<>>, test_items |-> <<>>, augmentations |-> 0,
     batch_size |-> 1, epochs |-> 0, seed |-> DEFAULT_SEED]

NoFit ==
    [phase |-> "start", epoch |-> 0, indices |-> <<>>, start |-> 0, first_fit |-> TRUE,
     batches |-> <<>>, fits |-> 0, classes_at |-> <<>>,
     history |-> [epoch |-> <<>>, train_accuracy |-> <<>>, val_accuracy |-> <<>>],
     bundle |-> <<>>]

TrainIdle ==
    /\ build = NoBuild
    /\ cfg = NoCfg
    /\ data = <<>>
    /\ fit = NoFit

\* train.py:59-92: one call of _build_features.
build_features ==
    /\ ~build.called
    /\ \E items \in ItemLists, augment \in BOOLEAN, n \in AugmentationCounts :
          LET out == _build_features(items, augment, n, DEFAULT_SEED)
          IN  build' = [called |-> TRUE, items |-> items, augment |-> augment,
                        augmentations_per_image |-> n, seed |-> DEFAULT_SEED,
                        raised |-> out.raised, X |-> out.X, y |-> out.y,
                        skipped |-> out.skipped]
    /\ UNCHANGED <<cfg, data, fit>>
    /\ UNCHANGED <<splitVars, serveVars, featureVars>>

\* The manifests and arguments of the training runs looked at.  The
\* manifests are those write_split_manifests writes, their labels are
\* keys of CLASS_TO_INDEX; a listed file may fail to decode.
TrainItems == { item \in Items : item.aug_fails = 0 /\ item.label \in DOMAIN CLASS_TO_INDEX }

DEFAULT_BATCH_SIZE == 256

TrainConfigs ==
    [train_items : UNION { [1..n -> TrainItems] : n \in 0..MaxItems },
     val_items : { << [label |-> "cat", decodes |-> TRUE, aug_fails |-> 0] >>,
                   << [label |-> "cat", decodes |-> TRUE, aug_fails |-> 0],
                      [label |-> "cat", decodes |-> FALSE, aug_fails |-> 0] >>,
                   << [label |-> "cat", decodes |-> FALSE, aug_fails |-> 0] >> },
     test_items : { << [label |-> "dog", decodes |-> TRUE, aug_fails |-> 0] >>,
                    << [label |-> "cat", decodes |-> FALSE, aug_fails |-> 0],
                       [label |-> "dog", decodes |-> TRUE, aug_fails |-> 0] >> },
     augmentations : AugmentationCounts,
     batch_size : {1, 2, DEFAULT_BATCH_SIZE},
     epochs : {0, 1, 2},
     seed : {DEFAULT_SEED}]

\* train.py:161-181: the three feature matrices; a ValueError of any of
\* the calls ends the run.
build_matrices ==
    /\ fit.phase = "start"
    /\ LET train == _build_features(cfg.train_items, TRUE, cfg.augmentations, cfg.seed)
           val == _build_features(cfg.val_items, FALSE, 0, cfg.seed)
           test == _build_features(cfg.test_items, FALSE, 0, cfg.seed)
       IN  IF train.raised \/ val.raised \/ test.raised
           THEN data' = data /\ fit' = [fit EXCEPT !.phase = "failed"]
           ELSE /\ data' = << [X_train |-> train.X, y_train |-> train.y,
                               skipped_train |-> train.skipped,
                               X_val |-> val.X, y_val |-> val.y, skipped_val |-> val.skipped,
                               X_test |-> test.X, y_test |-> test.y,
                               skipped_test |-> test.skipped] >>
                /\ fit' = [fit EXCEPT !.phase = "ready"]
    /\ UNCHANGED <<build, cfg>>
    /\ UNCHANGED <<splitVars, serveVars, featureVars>>

\* rng.permutation(n): the orders of 0..n-1 looked at are the ascending
\* one, its rotations and the descending one.
permutation(n) ==
    IF n = 0 THEN { <<>> }
    ELSE LET asc == [i \in 1..n |-> i - 1] IN Rotations(asc) \cup { Reversed(asc) }

\* train.py:243-244: an epoch begins with a permutation of the indices of
\* y_train.
begin_epoch ==
    /\ fit.phase = "ready"
    /\ fit.epoch < cfg.epochs
    /\ \E indices \in permutation(Len(data[1].y_train)) :
          fit' = [fit EXCEPT !.phase = "batches", !.epoch = @ + 1, !.indices = indices,
                             !.start = 0, !.batches = <<>>]
    /\ UNCHANGED <<build, cfg, data>>
    /\ UNCHANGED <<splitVars, serveVars, featureVars>>

\* A batch one index longer than the batch size.
BatchIndicesOneMore(indices, start, batch_size) ==
    PySlice(indices, start, start + batch_size + 1)

\* train.py:246: indices[start : start + args.batch_size]
BatchIndices(indices, start, batch_size) == PySlice(indices, start, start + batch_size)

\* train.py:245-251: one batch.
partial_fit ==
    /\ fit.phase = "batches"
    /\ fit.start < Len(data[1].y_train)
    /\ LET batch_idx == BatchIndices(fit.indices, fit.start, cfg.batch_size)
       IN  fit' = [fit EXCEPT !.batches = Append(@, batch_idx),
                              !.fits = @ + 1,
                              !.classes_at = IF fit.first_fit THEN Append(@, fit.fits + 1) ELSE @,
                              !.first_fit = FALSE,
                              !.start = @ + cfg.batch_size]
    /\ UNCHANGED <<build, cfg, data>>
    /\ UNCHANGED <<splitVars, serveVars, featureVars>>

\* accuracy_score and predict raise for a classifier that was never
\* fitted and for labels that are not as many as the rows.
CannotScore(X, y) == fit.fits = 0 \/ Len(X) # Len(y)

\* train.py:253-258: the accuracies of the epoch are recorded.
end_epoch ==
    /\ fit.phase = "batches"
    /\ fit.start >= Len(data[1].y_train)
    /\ IF CannotScore(data[1].X_train, data[1].y_train) \/ CannotScore(data[1].X_val, data[1].y_val)
       THEN fit' = [fit EXCEPT !.phase = "failed"]
       ELSE fit' = [fit EXCEPT !.phase = "ready",
                               !.history.epoch = Append(@, fit.epoch),
                               !.history.train_accuracy = Append(@, "train_acc"),
                               !.history.val_accuracy = Append(@, "val_acc")]
    /\ UNCHANGED <<build, cfg, data>>
    /\ UNCHANGED <<splitVars, serveVars, featureVars>>

\* train.py:269-356: the final evaluation and the bundle.
save_bundle ==
    /\ fit.phase = "ready"
    /\ fit.epoch = cfg.epochs
    /\ IF CannotScore(data[1].X_val, data[1].y_val) \/ CannotScore(data[1].X_test, data[1].y_test)
       THEN fit' = [fit EXCEPT !.phase = "failed"]
       ELSE fit' = [fit EXCEPT !.phase = "done",
                      !.bundle = << [classifier |-> "SGDClassifier",
                                     class_to_index |-> CLASS_TO_INDEX,
                                     index_to_class |-> DictInvert(CLASS_TO_INDEX),
                                     training_config |->
                                        [seed |-> cfg.seed, epochs |-> cfg.epochs,
                                         batch_size |-> cfg.batch_size,
                                         augmentations_per_image |-> cfg.augmentations],
                                     schema_version |-> 1] >>]
    /\ UNCHANGED <<build, cfg, data>>
    /\ UNCHANGED <<splitVars, serveVars, featureVars>>

\* ------------------------------------------------------------------------
\* Specifications
\* ------------------------------------------------------------------------
\* Spec: the raw data is put in place and the splitter is run on it once.
RunOnce == call.outcome = "none" /\ write_split_manifests

Init == SplitInit /\ ServeIdle /\ FeatureIdle /\ TrainIdle

Next == CreateRawDir \/ AddEntry \/ RunOnce

Spec == Init /\ [][Next]_vars

\* RerunSpec: the splitter is run again and again on raw data that stays
\* as it is: the end-to-end scenario, a mix of labelled, nested and
\* unlabelled files, class folders without images, an empty directory.
RerunLayouts ==
    { { e \in EntryUniverse : e.parts \in { <<"cats", "a.jpg">>, <<"cats", "b.jpg">>,
                                            <<"dogs", "c.jpg">>, <<"dogs", "d.jpg">> } },
      { e \in EntryUniverse : e.parts \in { <<"cats", "a.jpg">>, <<"dogs", "c.jpg">>,
                                            <<"cats", "Dog", "e.PNG">>, <<"x.jpg">> } },
      { e \in EntryUniverse : e.parts \in { <<"cats", "CATS">>, <<"dogs", "n.txt">> } },
      {} }

RerunInit ==
    /\ rawExists = TRUE
    /\ entries \in RerunLayouts
    /\ splitsDir = EmptySplitsDir
    /\ call = NoCall
    /\ ServeIdle
    /\ FeatureIdle
    /\ TrainIdle

RerunNext == write_split_manifests

RerunSpec == RerunInit /\ [][RerunNext]_vars

\* ServeSpec: the service starts on whatever MODEL_PATH holds and then
\* answers requests.
ServeInit ==
    /\ SplitInit
    /\ modelFile \in ModelFiles
    /\ started = FALSE
    /\ MODEL_BUNDLE = <<>>
    /\ MODEL_LOAD_ERROR = "None"
    /\ response = NoResponse
    /\ FeatureIdle
    /\ TrainIdle

ServeNext == load_model \/ health \/ predict \/ metrics

ServeSpec == ServeInit /\ [][ServeNext]_vars

\* The values of --augmentations looked at (train.py:126, any int), on
\* both sides of the stride of the augmentation seed.
AugmentationArgs == {0, DEFAULT_AUGMENTATIONS_PER_IMAGE, 2, 999, 1000, 1001, 1002, 2001}

\* train.py:161-167: the training matrix of a run, built with augmentation
\* from the train manifest and the --augmentations and --seed arguments.
build_train_matrix ==
    /\ ~build.called
    /\ \E items \in UNION { [1..n -> TrainItems] : n \in 0..MaxItems },
          n \in AugmentationArgs, seed \in {0, DEFAULT_SEED} :
          LET out == _build_features(items, TRUE, n, seed)
          IN  build' = [called |-> TRUE, items |-> items, augment |-> TRUE,
                        augmentations_per_image |-> n, seed |-> seed,
                        raised |-> out.raised, X |-> out.X, y |-> out.y,
                        skipped |-> out.skipped]
    /\ UNCHANGED <<cfg, data, fit>>
    /\ UNCHANGED <<splitVars, serveVars, featureVars>>

\* SeedSpec: the training matrix is built once, for augmentation counts
\* up to beyond the stride of the seed.
SeedNext == build_train_matrix

SeedSpec == Init /\ [][SeedNext]_vars

\* FeatureSpec: an image is turned into features, as training does it or
\* as the predictor does it under a bundle's preprocess config.
FeatureInit ==
    /\ SplitInit
    /\ ServeIdle
    /\ TrainIdle
    /\ image \in Images
    /\ config \in [preprocess : PreprocessConfigs, bins : Bins]
    /\ features = <<>>

FeatureNext == featurize_for_training \/ featurize_for_inference

FeatureSpec == FeatureInit /\ [][FeatureNext]_vars

\* BuildSpec: _build_features is called once on a list of items.
BuildNext == build_features

BuildSpec == Init /\ [][BuildNext]_vars

\* TrainSpec: one training run from the manifests to the bundle.
TrainInit ==
    /\ SplitInit
    /\ ServeIdle
    /\ FeatureIdle
    /\ build = NoBuild
    /\ cfg \in TrainConfigs
    /\ data = <<>>
    /\ fit = NoFit

TrainNext == build_matrices \/ begin_epoch \/ partial_fit \/ end_epoch \/ save_bundle

TrainSpec == TrainInit /\ [][TrainNext]_vars

\* ------------------------------------------------------------------------
\* Properties of the splitter
\* ------------------------------------------------------------------------
Ran == call.outcome # "none"
Ok == call.outcome = "ok"

\* The ratios the last call worked with.
CallRatios == EffectiveRatios(call.ratiosArg)

\* Number of items of a class in one split of the last call.
Placed(split, label) ==
    Cardinality({ i \in 1..Len(call.splits[split]) : call.splits[split][i].label = label })

\* C1: for every class, the samples placed in train, val and test number
\* as many as the samples discovered for the class, and so do the
\* counts_by_class entries of the metadata.
C1_CountsSumToTotal ==
    Ok => \A label \in Labels :
            /\ Placed("train", label) + Placed("val", label) + Placed("test", label)
                 = Len(call.discovered[label])
            /\ LET by_class == splitsDir.metadata[1].counts_by_class
               IN  by_class["train"][label] + by_class["val"][label] + by_class["test"][label]
                     = Len(call.discovered[label])

\* The members of a sequence.
Range(q) == { q[i] : i \in 1..Len(q) }

Manifests(dir) == << dir.train, dir.val, dir.test >>

\* C2: two consecutive successful runs with the same seed, the same ratios
\* and the same set of discovered samples write the same three manifests,
\* in whatever order the scans returned the files; and the split a class's
\* samples go to is the one they go to when the other class has no file.
C2_SameInputsSameManifests ==
    [][ ( /\ Ok
          /\ call'.outcome = "ok"
          /\ call'.seed = call.seed
          /\ EffectiveRatios(call'.ratiosArg) = CallRatios
          /\ \A label \in Labels :
                Range(call'.discovered[label]) = Range(call.discovered[label]) )
        => Manifests(splitsDir') = Manifests(splitsDir) ]_vars

OnlyClass(label) == [l \in Labels |-> IF l = label THEN call.discovered[l] ELSE <<>>]

C2_ClassesIndependent ==
    Ok => \A label \in Labels, split \in {"train", "val", "test"} :
            SelectSeq(call.splits[split], LAMBDA item : item.label = label)
              = _stratified_split(OnlyClass(label), call.seed, CallRatios)[split]

C2_Deterministic == C2_SameInputsSameManifests /\ []C2_ClassesIndependent

\* A run whose directory scan came back out of order, with two samples of
\* each class.
C2_Witness ==
    /\ Ok
    /\ \A label \in Labels : Len(call.discovered[label]) = 2
    /\ \E label \in Labels :
          StrLess(AsPosix(call.discovered[label][2]), AsPosix(call.discovered[label][1]))
    /\ splitsDir.train # <<"">>

\* The sum of a ratio dict as a fraction.
RatioSum(r) ==
    << r.train[1] * r.val[2] * r.test[2] + r.val[1] * r.train[2] * r.test[2]
         + r.test[1] * r.train[2] * r.val[2],
       r.train[2] * r.val[2] * r.test[2] >>

\* |sum - 1| <= 1e-6
SumsToOne(r) ==
    LET sum == RatioSum(r)
    IN  /\ (sum[1] - sum[2]) * 1000000 <= sum[2]
        /\ (sum[2] - sum[1]) * 1000000 <= sum[2]

\* C3: a ratio dict that does not sum to 1.0 within 1e-6 is rejected with
\* ValueError before the directory or an archive is looked at, and the
\* splits directory is left as it was.
C3_RejectedBeforeAnything ==
    (Ran /\ ~SumsToOne(CallRatios)) =>
        /\ call.outcome = "ValueError"
        /\ ~call.dirTried
        /\ ~call.zipTried

C3_SplitsUntouched ==
    [][ ~SumsToOne(EffectiveRatios(call'.ratiosArg)) => splitsDir' = splitsDir ]_vars

C3_BadRatiosRejected == []C3_RejectedBeforeAnything /\ C3_SplitsUntouched

\* A rejected call that found the manifests of an earlier run in place.
C3_Witness ==
    /\ call.outcome = "ValueError"
    /\ ~SumsToOne(CallRatios)
    /\ splitsDir.exists
    /\ splitsDir.train # <<>>

\* floor(num / den) for a positive den.
Floor(num, den) == num \div den

\* C4: per class the split sizes are floor(total * train), floor(total *
\* val) and the rest, and that many samples are placed in each split; two
\* cats and two dogs under 0.5/0.25/0.25 give one train sample per class
\* and one more per class in val and test together.
C4_SplitSizes ==
    Ok => \A label \in Labels :
            LET total == Len(call.discovered[label])
                train_count == Floor(total * CallRatios.train[1], CallRatios.train[2])
                val_count == Floor(total * CallRatios.val[1], CallRatios.val[2])
                test_count == total - train_count - val_count
            IN  /\ Placed("train", label) = train_count
                /\ Placed("val", label) = val_count
                /\ Placed("test", label) = test_count
                /\ ( /\ total = 2
                     /\ CallRatios = [train |-> <<1, 2>>, val |-> <<1, 4>>, test |-> <<1, 4>>] )
                   => ( /\ Placed("train", label) = 1
                        /\ Placed("val", label) + Placed("test", label) = 1 )

\* The label of the last segment that, in lower case, names a class.
LastMatch(parts) ==
    LET hits == { i \in 1..Len(parts) : Lower(parts[i]) \in {"cat", "cats", "dog", "dogs"} }
    IN  IF hits = {} THEN NoLabel
        ELSE LET last == CHOOSE i \in hits : \A j \in hits : j <= i
             IN  IF Lower(parts[last]) \in {"cat", "cats"} THEN "cat" ELSE "dog"

HasImageSuffix(name) ==
    \E suffix \in {".jpg", ".jpeg", ".png"} :
        /\ Len(name) > Len(suffix)
        /\ Lower(SubSeq(name, Len(name) - Len(suffix) + 1, Len(name))) = suffix

\* The image files the last successful call could see, by their
\* repo-relative parts: the files below its dataset root, or the members
\* of its archive.
ImagesSeen ==
    IF call.dirOk
    THEN { RawDirParts \o e.parts :
             e \in { f \in entries :
                       /\ f.isFile
                       /\ HasImageSuffix(f.parts[Len(f.parts)])
                       /\ IsPrefix(call.returned[1].dataset_root, RawDirParts \o f.parts) } }
    ELSE { RawDirParts \o SplitSlash(n) :
             n \in { m \in ZipNames(call.zip) : ~EndsWithSlash(m) /\ HasImageSuffix(m) } }

AllItems == Range(call.splits.train) \cup Range(call.splits.val) \cup Range(call.splits.test)

\* C5: an image's label is that of the last segment of its path naming a
\* class, whatever the case; an image with no such segment is in no
\* manifest and in no count, and its presence does not fail the call.
C5_LabelFromLastSegment ==
    /\ Ok => /\ \A label \in Labels :
                  Range(call.discovered[label]) = { p \in ImagesSeen : LastMatch(p) = label }
             /\ \A item \in AllItems : item.path \in ImagesSeen /\ item.label = LastMatch(item.path)
             /\ \A label \in Labels :
                  \A split \in {"train", "val", "test"} :
                     call.returned[1].counts_by_class[split][label]
                       = Cardinality({ i \in 1..Len(call.splits[split]) :
                                         LastMatch(call.splits[split][i].path) = label })
    /\ ( /\ Ran
         /\ SumsToOne(CallRatios)
         /\ _find_dataset_root(rawExists, entries) # {}
         /\ \A root \in _find_dataset_root(rawExists, entries) :
               \E e \in entries :
                  /\ e.isFile
                  /\ HasImageSuffix(e.parts[Len(e.parts)])
                  /\ IsPrefix(root, e.parts)
                  /\ LastMatch(e.parts) # NoLabel )
       => Ok /\ call.dirOk

\* A directory run over a file below a cats and a Dog directory and an
\* image with no class in its path.
C5_Witness ==
    /\ Ok
    /\ call.dirOk
    /\ \E item \in AllItems :
          item.path = RawDirParts \o << "cats", "Dog", "e.PNG" >> /\ item.label = "dog"
    /\ \E p \in ImagesSeen : LastMatch(p) = NoLabel

RECURSIVE SplitOnAcc(_, _, _)
SplitOnAcc(text, sep, cur) ==
    IF text = "" THEN << cur >>
    ELSE IF Head(text) = sep THEN << cur >> \o SplitOnAcc(Tail(text), sep, "")
    ELSE SplitOnAcc(Tail(text), sep, cur \o Head(text))

\* The pieces of a text between the occurrences of a character.
SplitOn(text, sep) == SplitOnAcc(text, sep, "")

\* A manifest file holds one "path TAB label" line per item, the paths in
\* ascending order, every line ended by a newline and nothing else.
ManifestWellFormed(file, items) ==
    /\ file # <<>>
    /\ LET pieces == SplitOn(file[1], "\n")
           lines == SubSeq(pieces, 1, Len(pieces) - 1)
           fields == [i \in 1..Len(lines) |-> SplitOn(lines[i], "\t")]
       IN  /\ items = <<>> => file[1] = ""
           /\ pieces[Len(pieces)] = ""
           /\ Len(lines) = Len(items)
           /\ \A i \in 1..Len(lines) : Len(fields[i]) = 2 /\ fields[i][1] # ""
           /\ { << fields[i][1], fields[i][2] >> : i \in 1..Len(lines) }
                = { << AsPosix(item.path), item.label >> : item \in Range(items) }
           /\ \A i \in 1..(Len(lines) - 1) : StrLess(fields[i][1], fields[i + 1][1])

\* C6: every manifest written lists its samples in ascending order of
\* path; a manifest with samples ends with exactly one newline and the
\* manifest of an empty split is an empty file.
C6_ManifestSortedAndTerminated ==
    Ok => /\ ManifestWellFormed(splitsDir.train, call.splits.train)
          /\ ManifestWellFormed(splitsDir.val, call.splits.val)
          /\ ManifestWellFormed(splitsDir.test, call.splits.test)

\* A run that wrote an empty manifest and one of both classes.
C6_Witness ==
    /\ Ok
    /\ \E a \in {"train", "val", "test"} : call.splits[a] = <<>> /\ splitsDir[a] = <<"">>
    /\ \E b \in {"train", "val", "test"} :
          /\ Len(call.splits[b]) >= 3
          /\ \E i, j \in 1..Len(call.splits[b]) : call.splits[b][i].label # call.splits[b][j].label

\* No image file with a class in its path is in the raw directory.
NoLabelledEntry ==
    ~\E e \in entries :
        e.isFile /\ HasImageSuffix(e.parts[Len(e.parts)]) /\ LastMatch(e.parts) # NoLabel

\* No image member with a class in its path is in the archive of the call,
\* or there is no such archive.
NoLabelledMember ==
    ~\E n \in ZipNames(call.zip) :
        ~EndsWithSlash(n) /\ HasImageSuffix(n) /\ LastMatch(SplitSlash(n)) # NoLabel

\* What the source selection does apart from the condition of the fallback.
C7_Rest ==
    /\ (Ran /\ call.outcome # "ValueError") => call.dirTried
    /\ call.zipTried => call.dirTried /\ call.zip # NoZip
    /\ (call.dirTried /\ ~call.rootFound /\ call.zip = NoZip)
         => call.outcome = "FileNotFoundError"
    /\ (call.dirTried /\ call.zip = NoZip /\ NoLabelledEntry)
         => call.outcome = "FileNotFoundError"
    /\ (call.zipTried /\ NoLabelledMember) => call.outcome = "FileNotFoundError"
    /\ call.outcome = "FileNotFoundError"
         => /\ ~call.dirOk
            /\ call.zip = NoZip \/ NoLabelledMember
            /\ splitsDir = EmptySplitsDir

\* C7 as stated: the archive is scanned only when no dataset root could be
\* located under the raw directory and an archive path was supplied.
C7_ArchiveOnlyWithoutRoot ==
    /\ C7_Rest
    /\ call.zipScanned => ~call.rootFound /\ call.zip # NoZip

\* C7: the directory is tried first; the archive is scanned only when the
\* directory scan failed, for want of a raw directory, of a dataset root
\* or of a labelled image below the root, and an archive path was
\* supplied; the call fails with FileNotFoundError when the directory scan
\* failed and no archive was supplied or the archive yields no labelled
\* image, and then no manifest is written.
C7_ArchiveOnlyAfterFailedScan ==
    /\ C7_Rest
    /\ call.zipScanned => call.dirTried /\ ~call.dirOk /\ call.zip # NoZip
    /\ (call.dirTried /\ ~call.dirOk /\ call.zip # NoZip) => call.zipTried

\* A dataset root was located, held no labelled image, and the archive
\* supplied the samples.
C7_Witness ==
    /\ Ok
    /\ call.rootFound
    /\ ~call.dirOk
    /\ call.zipScanned
    /\ splitsDir.exists

\* C8 as stated: the data source type is "filesystem" or "archive".
C8_FilesystemOrArchive ==
    Ok => LET written == splitsDir.metadata[1].data_source.type
          IN  /\ written = call.returned[1].data_source.type
              /\ written \in {"filesystem", "archive"}
              /\ call.dirOk => written = "filesystem"
              /\ call.zipScanned => written = "archive"

\* C8: the metadata returned and the metadata written give the data
\* source type "filesystem" after a directory scan and "zip" after the
\* archive fallback.
C8_FilesystemOrZip ==
    Ok => LET written == splitsDir.metadata[1].data_source.type
          IN  /\ written = call.returned[1].data_source.type
              /\ written \in {"filesystem", "zip"}
              /\ call.dirOk => written = "filesystem"
              /\ call.zipScanned => written = "zip"

\* The samples came from the archive.
C8_Witness ==
    /\ Ok
    /\ call.zipScanned
    /\ call.returned[1].data_source = [type |-> "zip", path |-> "pets.zip"]

\* ------------------------------------------------------------------------
\* Properties of the predictor and the service
\* ------------------------------------------------------------------------
Answered == response.endpoint = "predict" /\ MODEL_BUNDLE # <<>>

ImageContentType == response.content_type \in {"", "image/png"}

Took(step) == \E i \in 1..Len(response.steps) : response.steps[i] = step

\* C9: an empty payload is rejected with the empty-payload error before
\* any decoding or classifier call and undecodable bytes with a decode
\* error; with a model loaded, /predict answers both, and an upload whose
\* content type is not an image type, with status 400 and no label.
C9_InvalidUploadRejected ==
    Answered =>
        /\ ~ImageContentType
             => /\ response.status = 400
                /\ ~Took("read") /\ ~Took("Image.open") /\ ~Took("classifier")
        /\ (ImageContentType /\ response.payload = "")
             => /\ response.status = 400
                /\ response.raised = "ValueError"
                /\ ~Took("Image.open") /\ ~Took("classifier")
        /\ (ImageContentType /\ response.payload \in {"garbage", "truncated"})
             => /\ response.status = 400
                /\ response.raised \in {"UnidentifiedImageError", "OSError"}
                /\ ~Took("classifier")
        /\ response.status = 400 => response.label = ""

\* An empty upload of an image type to a service with a model.
C9_Witness ==
    /\ Answered
    /\ response.content_type = "image/png"
    /\ response.payload = ""
    /\ response.status = 400
    /\ Took("predict_bytes")

\* The probabilities the loaded classifier answers with.
Row == _predict_proba(MODEL_BUNDLE[1].classifier)[1]

\* The lowest column holding the greatest value.
FirstBest(row) ==
    CHOOSE i \in 1..Len(row) :
        \A j \in 1..Len(row) : row[j] < row[i] \/ (row[j] = row[i] /\ i <= j)

\* The class identifier of a column: the classifier's classes_ entry, the
\* column index without classes_.
ColumnClass(column) ==
    LET classes_ == MODEL_BUNDLE[1].classifier.classes_
    IN  IF classes_ = <<>> THEN column - 1
        ELSE IF column <= Len(classes_[1]) THEN classes_[1][column]
        ELSE -1

Predicted == Answered /\ response.status = 200

\* C10 as stated: the label is the name the index-to-class table gives
\* for the column of the greatest probability, the lowest such column.
C10_LabelFromTable ==
    Predicted =>
        LET best == FirstBest(Row)
            table == MODEL_BUNDLE[1].index_to_class
        IN  /\ response.probability = Row[best]
            /\ ColumnClass(best) \in DOMAIN table
            /\ response.label = table[ColumnClass(best)]

\* C10: the probability is the greatest value of the row and the column
\* chosen is the lowest one holding it; the label is the name the
\* index-to-class table gives for the class identifier of that column
\* when the classifier has as many class identifiers as the row has
\* columns and the table has the identifier; probabilities 0.2 and 0.8
\* for classes 0 and 1 give "dog" with 0.8.
C10_LabelFromTableWhenCovered ==
    Predicted =>
        LET best == FirstBest(Row)
            table == MODEL_BUNDLE[1].index_to_class
            classes_ == MODEL_BUNDLE[1].classifier.classes_
            covered == /\ classes_ # <<>> => Len(classes_[1]) = Len(Row)
                       /\ ColumnClass(best) \in DOMAIN table
        IN  /\ response.probability = Row[best]
            /\ covered => response.label = table[ColumnClass(best)]
            /\ (Row = <<2, 8>> /\ classes_ = << <<0, 1>> >>)
                 => response.label = "dog" /\ response.probability = 8

\* Two columns share the greatest probability.
C10_Witness ==
    /\ Predicted
    /\ Row = <<5, 5>>
    /\ MODEL_BUNDLE[1].classifier.classes_ = << <<0, 1>> >>
    /\ response.label = "cat"
    /\ response.probability = 5

Loaded == MODEL_BUNDLE # <<>>

\* The service is loaded with no error recorded, or has no bundle.
C11_LoadedOrUnloaded == started => (Loaded => MODEL_LOAD_ERROR = "None")

\* After the startup load no step changes the bundle or the error.
C11_LoadStateFrozen ==
    [][ started => /\ started'
                   /\ MODEL_BUNDLE' = MODEL_BUNDLE
                   /\ MODEL_LOAD_ERROR' = MODEL_LOAD_ERROR ]_vars

\* What /predict and /health answer in the two states.
C11_Answers ==
    /\ (response.endpoint = "predict" /\ ~Loaded)
         => /\ response.status = 503
            /\ ~Took("content_type") /\ ~Took("read") /\ ~Took("classifier")
            /\ response.label = ""
    /\ (response.endpoint = "health" /\ ~Loaded)
         => response.status = 503 /\ response.metadata = <<>>
    /\ (response.endpoint = "health" /\ Loaded)
         => /\ response.status = 200
            /\ response.metadata # <<>>
            /\ response.metadata[1].model_created_at = modelFile.bundle[1].created_at
            /\ response.metadata[1].mlflow_run_id = modelFile.bundle[1].mlflow_run_id
            /\ response.metadata[1].schema_version = modelFile.bundle[1].schema_version
            /\ response.metadata[1].class_mapping = modelFile.bundle[1].class_to_index

\* C11: the startup load runs once and leaves the service loaded, with no
\* error recorded, or unloaded; no request changes that; unloaded,
\* /predict answers 503 before it looks at the content type or reads the
\* upload and /health answers 503 without metadata; loaded, /health
\* answers with the metadata of the bundle.
C11_ServingState == []C11_LoadedOrUnloaded /\ C11_LoadStateFrozen /\ []C11_Answers

\* An upload that is no image sent to a service without a model.
C11_Witness ==
    /\ started
    /\ ~Loaded
    /\ MODEL_LOAD_ERROR # "None"
    /\ response.endpoint = "predict"
    /\ response.content_type = "text/plain"
    /\ response.status = 503

\* The loaded classifier answers with a row of probabilities.
HasRow == Loaded /\ _predict_proba(MODEL_BUNDLE[1].classifier) # <<>>

\* The number of labels resolved from the class identifiers.
ResolvedCount ==
    LET classes_ == MODEL_BUNDLE[1].classifier.classes_
    IN  IF classes_ = <<>> THEN Len(Row) ELSE Len(classes_[1])

Digits == << "0", "1", "2" >>

\* C17: the labels are as many as the probability columns, so that the
\* argmax addresses a label; when the labels resolved from the class
\* identifiers are not as many, the labels are "0".."n-1" and none is a
\* name of the index-to-class table.
C17_LabelsMatchColumns ==
    HasRow =>
        LET labels == _resolve_class_labels(MODEL_BUNDLE[1], MODEL_BUNDLE[1].classifier, Len(Row))
        IN  /\ Len(labels) = Len(Row)
            /\ FirstBest(Row) \in DOMAIN labels
            /\ ResolvedCount # Len(Row) => \A i \in 1..Len(Row) : labels[i] = Digits[i]
            /\ Predicted => response.label = labels[FirstBest(Row)]
            /\ (Predicted /\ ResolvedCount # Len(Row))
                 => response.label = Digits[FirstBest(Row)]

\* Three class identifiers for two columns.
C17_Witness ==
    /\ Predicted
    /\ MODEL_BUNDLE[1].classifier.classes_ = << <<0, 1, 2>> >>
    /\ Row = <<2, 8>>
    /\ response.label = "1"

\* How often a path is listed in one split of the last call.
Occurrences(split, path) ==
    Cardinality({ i \in 1..Len(call.splits[split]) : call.splits[split][i].path = path })

\* C18: for every ratio dict that passes the sum check, the three slices
\* of a class are pairwise disjoint and hold every sample of the class
\* once: no sample is in two manifests and none is lost.
C18_SlicesPartitionClass ==
    Ok => \A label \in Labels :
            \A path \in Range(call.discovered[label]) :
               Occurrences("train", path) + Occurrences("val", path) + Occurrences("test", path) = 1

\* ------------------------------------------------------------------------
\* C13
\* ------------------------------------------------------------------------
SubHistogram(vector, channel, bins) ==
    [b \in 1..bins |-> vector[(channel - 1) * bins + b]]

RECURSIVE CountSum(_, _)
CountSum(hist, n) == IF n = 0 THEN 0 ELSE hist[n][1] + CountSum(hist, n - 1)

\* The entries of one sub-histogram share their denominator.
SubHistogramSumsToOne(hist) == CountSum(hist, Len(hist)) = hist[1][2]

PixelsInBin(array, channel, bins, b) ==
    Cardinality({ i \in 1..Len(array) :
                    /\ InHistogramRange(array[i][channel])
                    /\ BinIndex(array[i][channel], bins) = b })

\* C13: a feature vector made with B bins has 3B entries, every entry is
\* the count of its bin divided by the number of pixels of the channel,
\* and each of the three sub-histograms sums to one, for the training
\* array as for the array of the predictor under any preprocess config.
C13_HistogramsNormalised ==
    features # <<>> =>
        LET f == features[1]
            bins == config.bins
        IN  /\ Len(f.vector) = 3 * bins
            /\ \A channel \in 1..3 :
                  LET hist == SubHistogram(f.vector, channel, bins)
                  IN  /\ SubHistogramSumsToOne(hist)
                      /\ \A b \in 1..bins :
                            hist[b][1] * Len(f.array)
                              = PixelsInBin(f.array, channel, bins, b) * hist[b][2]

\* ------------------------------------------------------------------------
\* C14, C19, C20
\* ------------------------------------------------------------------------
Planned == IF build.augment THEN build.augmentations_per_image ELSE 0

\* The samples of the call that met an exception.
Failing(item) ==
    \/ ~item.decodes
    \/ item.label \notin DOMAIN CLASS_TO_INDEX
    \/ item.aug_fails \in 1..Planned

FailingSamples == { k \in 1..Len(build.items) : Failing(build.items[k]) }

UsableSamples == { k \in 1..Len(build.items) : ~Failing(build.items[k]) }

\* C14: no sample ends the call, each failing sample adds exactly one to
\* the skip counter, and the call ends with the empty-dataset error if and
\* only if no usable sample remains.
C14_SkipsAndEmptyError ==
    build.called =>
        /\ build.skipped = Cardinality(FailingSamples)
        /\ build.raised <=> UsableSamples = {}

\* C19: after any mix of outcomes the feature list and the label list are
\* equally long and the label at position k is the class index of the item
\* feature row k was computed from.
C19_LabelsPairedWithRows ==
    build.called =>
        /\ Len(build.X) = Len(build.y)
        /\ \A k \in 1..Len(build.X) :
              LET label == build.items[build.X[k].item + 1].label
              IN  /\ label \in DOMAIN CLASS_TO_INDEX
                  /\ build.y[k] = CLASS_TO_INDEX[label]

\* C20: a sample is fully included or counted as skipped, never both: the
\* rows are (items - skipped) * (1 + N) with augmentation and
\* items - skipped without.
C20_RowsMatchSkipCount ==
    build.called =>
        Len(build.X) = (Len(build.items) - build.skipped)
                          * (IF build.augment THEN 1 + build.augmentations_per_image ELSE 1)

\* ------------------------------------------------------------------------
\* C12
\* ------------------------------------------------------------------------
IsInverseOf(back, forth) ==
    /\ \A k \in DOMAIN forth : forth[k] \in DOMAIN back /\ back[forth[k]] = k
    /\ \A i \in DOMAIN back : back[i] \in DOMAIN forth /\ forth[back[i]] = i

\* C12: in the bundle a training run creates, index_to_class and
\* class_to_index are inverses of each other and the indices are exactly
\* 0..K-1 for the K classes.
C12_BundleTablesInverse ==
    fit.bundle # <<>> =>
        LET bundle == fit.bundle[1]
            K == Cardinality(DOMAIN bundle.class_to_index)
        IN  /\ DOMAIN bundle.index_to_class = 0..(K - 1)
            /\ { bundle.class_to_index[k] : k \in DOMAIN bundle.class_to_index } = 0..(K - 1)
            /\ IsInverseOf(bundle.index_to_class, bundle.class_to_index)

C12_Witness ==
    /\ fit.phase = "done"
    /\ fit.bundle # <<>>
    /\ Cardinality(DOMAIN fit.bundle[1].class_to_index) = 2

\* ------------------------------------------------------------------------
\* C15
\* ------------------------------------------------------------------------
Usable(items) == { k \in 1..Len(items) : items[k].decodes /\ items[k].label \in DOMAIN CLASS_TO_INDEX }

AugmentedRows(X) == { k \in 1..Len(X) : X[k].variant >= 1 }

\* One row per usable sample of the manifest, in the manifest's order,
\* computed from the image itself.
OneRowPerUsable(X, items) ==
    /\ Len(X) = Cardinality(Usable(items))
    /\ \A k \in 1..Len(X) : X[k].variant = 0 /\ (X[k].item + 1) \in Usable(items)
    /\ \A j, k \in 1..Len(X) : j < k => X[j].item < X[k].item

RECURSIVE Concat(_)
Concat(seqs) == IF seqs = <<>> THEN <<>> ELSE Head(seqs) \o Concat(Tail(seqs))

TrainRows == IF data = <<>> THEN 0 ELSE Len(data[1].X_train)

\* The batches of the current epoch are all cut.
EpochCut ==
    \/ fit.phase = "batches" /\ fit.start >= TrainRows
    \/ fit.phase \in {"ready", "done"} /\ fit.epoch >= 1

\* Consecutive batches of the fixed size, the last possibly shorter.
FixedSizeBatches(batches, batch_size, complete) ==
    \A b \in 1..Len(batches) :
        /\ Len(batches[b]) >= 1
        /\ Len(batches[b]) <= batch_size
        /\ (b < Len(batches) \/ ~complete) => Len(batches[b]) = batch_size

C16_BatchesCoverRows ==
    LET seen == Concat(fit.batches)
    IN  /\ \A j, k \in 1..Len(seen) : j # k => seen[j] # seen[k]
        /\ \A k \in 1..Len(seen) : seen[k] \in 0..(TrainRows - 1)
        /\ FixedSizeBatches(fit.batches, cfg.batch_size, EpochCut)
        /\ seen = SubSeq(fit.indices, 1, Len(seen))
        /\ EpochCut => { seen[k] : k \in 1..Len(seen) } = 0..(TrainRows - 1)

C16_ClassesOnFirstBatchOnly ==
    /\ fit.classes_at = IF fit.fits = 0 THEN <<>> ELSE <<1>>
    /\ fit.first_fit <=> fit.fits = 0

C16_HistoryPerEpoch ==
    fit.phase # "failed" =>
        LET recorded == IF fit.phase = "batches" THEN fit.epoch - 1 ELSE fit.epoch
        IN  /\ fit.history.epoch = [e \in 1..recorded |-> e]
            /\ Len(fit.history.train_accuracy) = recorded
            /\ Len(fit.history.val_accuracy) = recorded
            /\ fit.phase = "done" => recorded = cfg.epochs

\* C16: in every epoch the batches are a permutation of the training rows
\* cut into consecutive batches of the batch size and cover each row
\* exactly once; the classes are passed on the very first batch and on no
\* later one; one training and one validation accuracy are recorded after
\* each epoch, so that after E epochs the history holds the epochs 1..E.
C16_TrainingLoopOrder ==
    /\ C16_BatchesCoverRows
    /\ C16_ClassesOnFirstBatchOnly
    /\ C16_HistoryPerEpoch

C16_Witness ==
    /\ fit.phase = "done"
    /\ cfg.epochs = 2
    /\ cfg.batch_size = 2
    /\ Len(fit.batches) = 2
    /\ Len(fit.batches[2]) = 1
    /\ fit.fits = 4
    /\ fit.indices # [i \in 1..TrainRows |-> i - 1]

\* ------------------------------------------------------------------------
\* C21
\* ------------------------------------------------------------------------
VisitedPairs == { << build.X[k].item, build.X[k].variant - 1 >> : k \in AugmentedRows(build.X) }

VisitedSeeds == { build.X[k].rng[1] : k \in AugmentedRows(build.X) }

\* C21: the seeds base_seed + sample_index * 1000 + variant_index of the
\* (sample_index, variant_index) pairs a call visits are pairwise distinct,
\* for every manifest length and every augmentation count.
C21_AugSeedsDistinct ==
    build.called => Cardinality(VisitedSeeds) = Cardinality(VisitedPairs)

====
